---- MODULE Spec2Model ----
(***************************************************************************)
(* Model of the Yalla Motors new-cars scraper.                             *)
(*                                                                         *)
(*   Spec       main() and scrape_forever(): the run/sleep scheduler, the  *)
(*              listing pages, the per-item try/except, save_doc and the   *)
(*              document store.                                            *)
(*                                                                         *)
(*   SpecStore  any sequence of save_doc calls on the collection.           *)
(*   SpecWait   one call of wait_for_any_anchor or wait_for_detail_ready    *)
(*              against every sequence of evaluation outcomes; time is in  *)
(*              units of 0.05 s and passes in sleeps and while an          *)
(*              evaluation is awaited.                                     *)
(*   SpecDetail one call of scrape_detail_in_detail_tab, with              *)
(*              expand_features_if_needed and extract_detail_basic, against*)
(*              every sequence of evaluation outcomes.                     *)
(*   SpecFn     one call of a pure function: to_arabic_url, and the price, *)
(*              image and feature computations of the in-page program of   *)
(*              extract_detail_basic, on every input up to the bounds.     *)
(*                                                                         *)
(* datetime.utcnow() reads a logical clock.  Under Spec its unit is one     *)
(* inter-run sleep: it advances in Sleep and a run takes no time.  Under   *)
(* SpecStore it advances between any two calls.                            *)
(***************************************************************************)
EXTENDS Integers, Sequences, FiniteSets, TLC

\* ------------------------------------------------------------------ bounds
NumUrls == 2        \* distinct absolute detail URLs the site can list
MaxLinks == NumUrls + 1   \* anchors on one listing page
MaxRuns == 2        \* runs of the while-True loop that are explored
MAX_PAGES == 2      \* int(os.getenv("MAX_PAGES", "50")), scaled down
MaxClock == 3       \* SpecStore: instants at which save_doc is called
AnchorTimeout == 32 \* wait_for_any_anchor(timeout=45.0), scaled down to 1.6 s
DetailTimeout == 18 \* wait_for_detail_ready(timeout=35.0), scaled down to 0.9 s
ExpandTimeout == 16 \* expand_features_if_needed(timeout=12.0), scaled down to 0.8 s
MaxEvalTicks == 2   \* longest time one tab.evaluate is awaited: 0.1 s
MaxUrlLen == 6      \* tokens of a URL after "https"
MaxPriceLen == 3    \* digits, commas and dots of a matched price text
MaxImgs == 3        \* image sources collected from the page
MaxSpans == 2       \* feature spans on the page

\* ------------------------------------- program constants, in units of 0.05 s
AnchorSettle == 20  \* tab.sleep(1) / asyncio.sleep(1)
AnchorPoll == 10    \* asyncio.sleep(0.5)
DetailPoll == 8     \* asyncio.sleep(0.4)
ExpandPoll == 7     \* asyncio.sleep(0.35)

URLS == 1..NumUrls

\* A raw href as seen in the DOM: the same resource may be linked relatively
\* ("/new-cars/x") or absolutely ("https://ksa.yallamotor.com/new-cars/x").
\* Every resource has a relative href; resource 1 is also linked absolutely.
HREFS == {<<"rel", u>> : u \in URLS} \cup {<<"abs", 1>>}

VARIABLES
  pc,           \* position of main()/scrape_forever()
  browser,      \* "none" | "started" | "stopped"
  mongo_ok,     \* environment: MONGO_URL and MONGO_DB are both set
  run_no,       \* scrape_forever: run_no
  seen,         \* scrape_forever: seen
  page,         \* scrape_forever: page of the for loop
  urls,         \* links of the current page not yet iterated
  listing_tab,  \* "none" | "open" | "closed"   (closed = close() attempted)
  detail_tab,   \* "none" | "open" | "closed"
  exc,          \* an exception is propagating out of the try block
  store,        \* the collection: _id -> document (a function field -> value)
  clock,        \* wall clock read by datetime.utcnow()
  \* ---- history variables (observations, never read by the program)
  requested,    \* listing pages requested in this run, in order
  listed,       \* absolute URLs returned by the listing pages of this run
  processed,    \* per URL: times handed to the detail pipeline in this run
  no_links,     \* "none" | "empty" | "timeout": why a page gave zero links
  item,         \* what happened to the link iterated last, while in the loop
  first_write,  \* per URL: clock of the first stored write (0 = none)
  last_write,   \* per URL: clock of the latest stored write (0 = none)
  \* ---- one call of a readiness wait (SpecWait)
  w_fn,         \* "none" | "anchor" | "detail": the function called
  w_pc,         \* "idle" | "loop" | "done"
  w_now,        \* time.time(), from the call on
  w_end,        \* end = time.time() + timeout
  w_ret,        \* "none" | "true" | "false" | "raised"
  w_hist,       \* history: what the polls delivered
  \* ---- one call of scrape_detail_in_detail_tab (SpecDetail)
  d_pc,         \* "idle" | "expand" | "poll" | "extract" | "done"
  d_ret,        \* "none" | "raised" | "empty" | "full": how the call ended
  e_before,     \* expand_features_if_needed: before
  e_now,        \* time.time(), from the start of the polling loop on
  e_end,        \* expand_features_if_needed: end
  d_hist,       \* history of the call
  \* ---- one call of a pure function of the scraper (SpecFn)
  x_pc,         \* "off" | "idle" | "done"
  x_in,         \* the function called and its argument
  x_out         \* what it returned

vars == <<pc, browser, mongo_ok, run_no, seen, page, urls, listing_tab,
          detail_tab, exc, store, clock, requested, listed, processed,
          no_links, item, first_write, last_write,
          w_fn, w_pc, w_now, w_end, w_ret, w_hist,
          d_pc, d_ret, e_before, e_now, e_end, d_hist,
          x_pc, x_in, x_out>>

\* ------------------------------------------------------------- pure helpers

NoDoc == [f \in {} |-> 0]

Range(s) == {s[i] : i \in 1..Len(s)}

RECURSIVE SeqsUpTo(_, _)
SeqsUpTo(S, n) ==
  IF n = 0 THEN {<<>>}
  ELSE LET shorter == SeqsUpTo(S, n - 1)
       IN shorter \cup {Append(s, x) : s \in {t \in shorter : Len(t) = n - 1}, x \in S}

\* The lists extract_listing_hrefs' in-page program can return: it keeps the
\* first occurrence of each href, so no href repeats.
InjSeqsUpTo(S, n) == {s \in SeqsUpTo(S, n) : \A i, j \in 1..Len(s) : s[i] = s[j] => i = j}

\* abs_url: an absolute href is kept, a relative one is joined to BASE; both
\* forms of one resource give the same absolute URL.
abs_url(href) == href[2]

\* scrape_listing_page, after readiness: hrefs -> absolute http URLs.
ListingUrls(hrefs) == [i \in 1..Len(hrefs) |-> abs_url(hrefs[i])]

\* dict.get(key) with a default.
Get(d, k, default) == IF k \in DOMAIN d THEN d[k] ELSE default

\* What extract_detail_basic can return: {} or the parsed record.
DetailOf(kind) ==
  IF kind = "full"
  THEN [h1 |-> "T", breadcrumbs |-> <<"b">>, priceText |-> "SAR 1",
        priceNumber |-> 1, images |-> <<"img">>, highlights |-> <<"h">>,
        measurements |-> <<"m">>, descriptionText |-> "d",
        descriptionHtml |-> "<d>", features |-> <<"f">>]
  ELSE NoDoc

\* The OK document of scrape_forever. A missing priceNumber is None, written 0
\* here (DetailOf's price is 1).
OkDocOmittingMissing(detail_url, detail, now) ==
  IF "h1" \in DOMAIN detail
  THEN [url |-> detail_url, source |-> "yallamotor", type |-> "NEW_CAR",
        status |-> "OK",
        title |-> detail["h1"], breadcrumbs |-> detail["breadcrumbs"],
        priceText |-> detail["priceText"], priceNumber |-> detail["priceNumber"],
        images |-> detail["images"], highlights |-> detail["highlights"],
        measurements |-> detail["measurements"],
        descriptionText |-> detail["descriptionText"],
        descriptionHtml |-> detail["descriptionHtml"],
        features |-> detail["features"],
        updatedAt |-> now, scrapedAt |-> now, createdAt |-> now]
  ELSE [url |-> detail_url, source |-> "yallamotor", type |-> "NEW_CAR",
        status |-> "OK", updatedAt |-> now, scrapedAt |-> now, createdAt |-> now]

OkDoc(detail_url, detail, now) ==
  [url |-> detail_url, source |-> "yallamotor", type |-> "NEW_CAR",
   status |-> "OK",
   title |-> Get(detail, "h1", "None"),
   breadcrumbs |-> Get(detail, "breadcrumbs", <<>>),
   priceText |-> Get(detail, "priceText", "None"),
   priceNumber |-> Get(detail, "priceNumber", 0),
   images |-> Get(detail, "images", <<>>),
   highlights |-> Get(detail, "highlights", <<>>),
   measurements |-> Get(detail, "measurements", <<>>),
   descriptionText |-> Get(detail, "descriptionText", "None"),
   descriptionHtml |-> Get(detail, "descriptionHtml", "None"),
   features |-> Get(detail, "features", <<>>),
   updatedAt |-> now, scrapedAt |-> now, createdAt |-> now]

\* The FAILED document of scrape_forever; e is the exception, repr(e) its text.
FailDocCopiedFromOk(detail_url, e, now) ==
  [url |-> detail_url, arUrl |-> <<"ar", detail_url>>, source |-> "yallamotor",
   type |-> "new_car", status |-> "OK",
   updatedAt |-> now, scrapedAt |-> now, createdAt |-> now]

FailDoc(detail_url, e, now) ==
  [url |-> detail_url, arUrl |-> <<"ar", detail_url>>, source |-> "yallamotor",
   type |-> "new_car", status |-> "FAILED", error |-> e,
   updatedAt |-> now, scrapedAt |-> now, createdAt |-> now]

Without(d, k) == [f \in DOMAIN d \ {k} |-> d[f]]

Merge(old, new) ==
  [f \in DOMAIN old \cup DOMAIN new |-> IF f \in DOMAIN new THEN new[f] ELSE old[f]]

\* update_one({"_id": url}, {"$set": set, "$setOnInsert": {"createdAt": c}},
\* upsert=True) on one stored document (NoDoc when absent).
SetOnInsertBroken(old, set, created_at) ==
  Merge(old, Merge(set, [createdAt |-> created_at]))

UpdateOneReplacing(old, set, created_at) ==
  Merge(set, [createdAt |-> created_at])

UpdateOne(old, set, created_at) ==
  IF DOMAIN old = {}
  THEN Merge(set, [createdAt |-> created_at])
  ELSE Merge(old, set)

\* save_doc once get_db() has returned: the store after the write.
save_doc(st, doc) ==
  LET url == doc["url"]
      created_at == doc["createdAt"]
      set == Without(doc, "createdAt")
  IN [st EXCEPT ![url] = UpdateOne(st[url], set, created_at)]


\* get_db(): _mongo_url() and _mongo_db() raise RuntimeError when the
\* variable is unset or blank; nothing calls them before the first save_doc.
get_db_raises == ~mongo_ok

\* One await save_doc(doc): "ok" (stored) or the exception it raises.
\* store_up is the environment: whether update_one succeeds this time.
SaveResult(store_up) ==
  IF get_db_raises THEN "RuntimeError('MONGO_URL is required (set it in .env)')"
  ELSE IF ~store_up THEN "PyMongoError()"
  ELSE "ok"

\* What scrape_detail_in_detail_tab can do for one URL: raise from
\* navigate_in_tab, from expand_features_if_needed, from extract_detail_basic,
\* or return the record ({} or the parsed one).
DetailOutcomes == {"nav_raise", "expand_raise", "extract_raise", "empty", "full"}

DetailRaises(d) == d \in {"nav_raise", "expand_raise", "extract_raise"}

\* repr(e) of the exception the rendering context raised.
DetailError(d) == "ProtocolException()"

\* seen.add(detail_url)
MarkSeenDropped(s, u) == s

MarkSeen(s, u) == s \cup {u}

\* detail: the record extract_detail_basic returned for the item ("empty" |
\* "full"); replaced: the write went to a document that held extracted content.
NoItem ==
  [url |-> 0, outcome |-> "none", raised |-> "none", fail_write |-> "none",
   detail |-> "none", replaced |-> FALSE]

\* The stored document holds content of a successful extraction.
HasContent(doc) == "title" \in DOMAIN doc /\ doc["title"] # "None"

NoWaitHist ==
  [polls |-> 0, truthy |-> FALSE, failed |-> FALSE, last |-> "none", awaited |-> 0,
   counted |-> FALSE]

WaitIdle ==
  /\ w_fn = "none"
  /\ w_pc = "idle"
  /\ w_now = 0
  /\ w_end = 0
  /\ w_ret = "none"
  /\ w_hist = NoWaitHist

\* ready: what wait_for_detail_ready returned; control: the expand control that
\* was clicked; expand: how expand_features_if_needed ended; polls: passes of
\* its polling loop; raised_in: the step whose exception left the call; raw:
\* what the evaluation of extract_detail_basic delivered; activated: whether
\* the control that was clicked was on the page ("present" | "absent") when
\* the control-gone check made the expansion return.
NoDetailHist ==
  [ready |-> "none", control |-> "none", expand |-> "none", polls |-> 0,
   raised_in |-> "none", raw |-> "none_yet", activated |-> "n/a"]

DetailIdle ==
  /\ d_pc = "idle"
  /\ d_ret = "none"
  /\ e_before = 0
  /\ e_now = 0
  /\ e_end = 0
  /\ d_hist = NoDetailHist

NoInput == [fn |-> "none"]

NoOutput == [fn |-> "none"]

FnIdle ==
  /\ x_pc = "off"
  /\ x_in = NoInput
  /\ x_out = NoOutput

\* ------------------------------------------------------------------- Init

Init ==
  /\ pc = "boot"
  /\ browser = "none"
  /\ mongo_ok \in BOOLEAN
  /\ run_no = 0
  /\ seen = {}
  /\ page = 0
  /\ urls = <<>>
  /\ listing_tab = "none"
  /\ detail_tab = "none"
  /\ exc = FALSE
  /\ store = [u \in URLS |-> NoDoc]
  /\ clock = 1
  /\ requested = <<>>
  /\ listed = {}
  /\ processed = [u \in URLS |-> 0]
  /\ no_links = "none"
  /\ item = NoItem
  /\ first_write = [u \in URLS |-> 0]
  /\ last_write = [u \in URLS |-> 0]
  /\ WaitIdle
  /\ DetailIdle
  /\ FnIdle

waitVars == <<w_fn, w_pc, w_now, w_end, w_ret, w_hist>>
detailVars == <<d_pc, d_ret, e_before, e_now, e_end, d_hist>>
fnVars == <<x_pc, x_in, x_out>>
schedVars == <<pc, browser, mongo_ok, run_no, seen, page, urls, listing_tab,
               detail_tab, exc, store, clock, requested, listed, processed,
               no_links, item, first_write, last_write>>
\* The scheduler and the store leave the other machines alone.
OthersIdle == UNCHANGED <<waitVars, detailVars, fnVars>>

runVars == <<run_no, seen, page, urls, listing_tab, detail_tab, exc>>
histVars == <<requested, listed, processed, no_links, item>>
storeVars == <<store, clock, first_write, last_write>>

\* ----------------------------------------------------------------- main()

\* main(): load_dotenv(); browser = await start_browser(), outside the try.
StartBrowser ==
  /\ pc = "boot"
  /\ OthersIdle
  /\ \E started \in BOOLEAN :
       IF started
       THEN pc' = "run_start" /\ browser' = "started"
       ELSE pc' = "exited" /\ browser' = "none"
  /\ UNCHANGED <<mongo_ok, runVars, histVars, storeVars>>

\* An exception leaves scrape_forever: main() logs [FATAL], re-raises, and its
\* finally stops the browser; asyncio.run(main()) ends the process.
Escape ==
  /\ pc' = "exited"
  /\ browser' = "stopped"

\* ------------------------------------------------------- scrape_forever()

\* seen: Set[str] = set()
SeenKept == seen

FreshSeen == {}

\* Top of the while-True loop: run_no += 1, seen = set(),
\* listing_tab = await browser.get("about:blank").
RunStart ==
  /\ pc = "run_start"
  /\ OthersIdle
  /\ run_no < MaxRuns
  /\ run_no' = run_no + 1
  /\ seen' = FreshSeen
  /\ page' = 0
  /\ urls' = <<>>
  /\ exc' = FALSE
  /\ detail_tab' = "none"
  /\ requested' = <<>>
  /\ listed' = {}
  /\ processed' = [u \in URLS |-> 0]
  /\ no_links' = "none"
  /\ item' = NoItem
  /\ \E got \in BOOLEAN :
       IF got
       THEN listing_tab' = "open" /\ pc' = "acq_detail" /\ browser' = browser
       ELSE listing_tab' = "none" /\ Escape
  /\ UNCHANGED <<mongo_ok, storeVars>>

\* detail_tab = await browser.get("about:blank"), still before the try.
AcquireDetailTab ==
  /\ pc = "acq_detail"
  /\ OthersIdle
  /\ \E got \in BOOLEAN :
       IF got
       THEN detail_tab' = "open" /\ pc' = "list" /\ page' = 1 /\ browser' = browser
       ELSE detail_tab' = "none" /\ Escape /\ page' = page
  /\ UNCHANGED <<mongo_ok, run_no, seen, urls, listing_tab, exc, histVars, storeVars>>


\* navigate_in_tab: tab.get(url); when it raises, the window.location.href
\* fallback is evaluated, and an exception of the fallback propagates.
NavigateRaises(get_ok, eval_ok) == ~get_ok /\ ~eval_ok

AdvanceAbortingOnFailure(rest) ==
  IF item'.outcome = "failed"
  THEN /\ pc' = "finally"
       /\ exc' = TRUE
       /\ urls' = <<>>
       /\ page' = page
  ELSE /\ urls' = rest
       /\ exc' = FALSE
       /\ IF rest # <<>> THEN pc' = "items" /\ page' = page
          ELSE IF page < MAX_PAGES THEN pc' = "list" /\ page' = page + 1
          ELSE pc' = "finally" /\ page' = page

AdvanceSkipping(rest) ==
  /\ urls' = rest
  /\ exc' = FALSE
  /\ IF rest # <<>> THEN pc' = "items" /\ page' = page
     ELSE IF page < MAX_PAGES THEN pc' = "list" /\ page' = page + 2
     ELSE pc' = "finally" /\ page' = page

\* The for loop over urls moves on: next link, next page, or the loop over
\* pages is exhausted and the try block is left normally.
Advance(rest) ==
  /\ urls' = rest
  /\ exc' = FALSE
  /\ IF rest # <<>> THEN pc' = "items" /\ page' = page
     ELSE IF page < MAX_PAGES THEN pc' = "list" /\ page' = page + 1
     ELSE pc' = "finally" /\ page' = page

\* An exception leaves the try block of scrape_forever: the finally runs next.
Abort ==
  /\ pc' = "finally"
  /\ exc' = TRUE
  /\ urls' = <<>>
  /\ page' = page

\* One pass of the for-page loop head: navigate_in_tab(listing_tab, url),
\* scrape_listing_page(listing_tab), and the `if not urls: break`.
OpenListingPage ==
  /\ pc = "list"
  /\ OthersIdle
  /\ requested' = Append(requested, page)
  /\ item' = NoItem
  /\ \E get_ok \in BOOLEAN, eval_ok \in BOOLEAN :
       IF NavigateRaises(get_ok, eval_ok)
       THEN Abort /\ UNCHANGED <<listed, no_links>>
       ELSE \E anchors \in BOOLEAN :
         IF ~anchors
         THEN \* wait_for_any_anchor returned False: RuntimeError
              Abort /\ no_links' = "timeout" /\ UNCHANGED listed
         ELSE \E r \in {<<"raise", <<>>>>, <<"notlist", <<>>>>}
                       \cup {<<"list", h>> : h \in InjSeqsUpTo(HREFS, MaxLinks)} :
           IF r[1] = "raise"
           THEN Abort /\ UNCHANGED <<listed, no_links>>
           ELSE LET hrefs == r[2]   \* [] when the result is not a list
                    found == ListingUrls(hrefs)
                IN IF found = <<>>
                   THEN \* `if not urls: break`
                        /\ pc' = "finally" /\ exc' = FALSE /\ urls' = <<>>
                        /\ page' = page
                        /\ no_links' = "empty" /\ UNCHANGED listed
                   ELSE /\ pc' = "items" /\ exc' = FALSE /\ urls' = found
                        /\ page' = page
                        /\ listed' = listed \cup Range(found)
                        /\ UNCHANGED no_links
  /\ UNCHANGED <<browser, mongo_ok, run_no, seen, listing_tab, detail_tab,
                 processed, storeVars>>

\* The store and its history after one stored write of doc at time now.
Stored(doc, now) ==
  /\ store' = save_doc(store, doc)
  /\ first_write' = [first_write EXCEPT ![doc["url"]] = IF @ = 0 THEN now ELSE @]
  /\ last_write' = [last_write EXCEPT ![doc["url"]] = now]

\* The except branch of one item: utcnow(), fail_doc, save_doc(fail_doc) with
\* its own exception swallowed. stage is where e was raised.
FailPath(detail_url, stage, e, store_up) ==
  IF SaveResult(store_up) = "ok"
  THEN /\ Stored(FailDoc(detail_url, e, clock), clock)
       /\ item' = [url |-> detail_url, outcome |-> "failed", raised |-> stage,
                   fail_write |-> "stored", detail |-> "none",
                   replaced |-> FALSE]
  ELSE /\ UNCHANGED <<store, first_write, last_write>>
       /\ item' = [url |-> detail_url, outcome |-> "failed", raised |-> stage,
                   fail_write |-> "swallowed", detail |-> "none",
                   replaced |-> FALSE]

\* One iteration of `for detail_url in urls`.
ProcessItem ==
  /\ pc = "items"
  /\ OthersIdle
  /\ urls # <<>>
  /\ LET detail_url == Head(urls) IN
       IF detail_url \in seen
       THEN \* continue
            /\ item' = [url |-> detail_url, outcome |-> "skipped", raised |-> "none",
                        fail_write |-> "none", detail |-> "none",
                        replaced |-> FALSE]
            /\ UNCHANGED <<seen, processed, store, first_write, last_write>>
       ELSE /\ seen' = MarkSeen(seen, detail_url)
            /\ processed' = [processed EXCEPT ![detail_url] = @ + 1]
            /\ \E d \in DetailOutcomes, up1 \in BOOLEAN, up2 \in BOOLEAN :
                 IF DetailRaises(d)
                 THEN FailPath(detail_url, d, DetailError(d), up2)
                 ELSE \* utcnow(), doc, save_doc(doc)
                      IF SaveResult(up1) = "ok"
                      THEN /\ Stored(OkDoc(detail_url, DetailOf(d), clock), clock)
                           /\ item' = [url |-> detail_url, outcome |-> "saved",
                                       raised |-> "none", fail_write |-> "none",
                                       detail |-> d,
                                       replaced |-> HasContent(store[detail_url])]
                      ELSE FailPath(detail_url, "save_raise", SaveResult(up1), up2)
  /\ Advance(Tail(urls))
  /\ UNCHANGED <<browser, mongo_ok, run_no, listing_tab, detail_tab, clock,
                 requested, listed, no_links>>

\* The finally block: detail_tab.close() and listing_tab.close(), each with
\* its exception swallowed; then the pending exception, if any, goes on to
\* main(), else the run is over and the sleep begins.
Finally ==
  /\ pc = "finally"
  /\ OthersIdle
  /\ detail_tab' = "closed"
  /\ listing_tab' = "closed"
  /\ IF exc THEN Escape ELSE pc' = "sleep" /\ browser' = browser
  /\ item' = NoItem
  /\ UNCHANGED <<mongo_ok, run_no, seen, page, urls, exc, requested, listed,
                 processed, no_links, storeVars>>

\* await asyncio.sleep(SLEEP_HOURS * 60 * 60), then the loop starts over.
Sleep ==
  /\ pc = "sleep"
  /\ OthersIdle
  /\ pc' = "run_start"
  /\ clock' = clock + 1
  /\ UNCHANGED <<browser, mongo_ok, runVars, histVars, store, first_write, last_write>>

Next ==
  \/ StartBrowser
  \/ RunStart
  \/ AcquireDetailTab
  \/ OpenListingPage
  \/ ProcessItem
  \/ Finally
  \/ Sleep

Spec == Init /\ [][Next]_vars


\* --------------------------------------------------- save_doc on its own

InitStore ==
  /\ pc = "save_doc"
  /\ browser = "started"
  /\ mongo_ok \in BOOLEAN
  /\ run_no = 0
  /\ seen = {}
  /\ page = 0
  /\ urls = <<>>
  /\ listing_tab = "none"
  /\ detail_tab = "none"
  /\ exc = FALSE
  /\ store = [u \in URLS |-> NoDoc]
  /\ clock = 1
  /\ requested = <<>>
  /\ listed = {}
  /\ processed = [u \in URLS |-> 0]
  /\ no_links = "none"
  /\ item = NoItem
  /\ first_write = [u \in URLS |-> 0]
  /\ last_write = [u \in URLS |-> 0]
  /\ WaitIdle
  /\ DetailIdle
  /\ FnIdle

\* await save_doc(doc) with doc an OK document or a FAILED document of any
\* URL, built at the current instant as scrape_forever builds them.
SaveDocCall ==
  /\ pc = "save_doc"
  /\ OthersIdle
  /\ \E u \in URLS, kind \in {"full", "empty", "failed"}, store_up \in BOOLEAN :
       LET doc == IF kind = "failed"
                  THEN FailDoc(u, DetailError("extract_raise"), clock)
                  ELSE OkDoc(u, DetailOf(kind), clock)
       IN IF SaveResult(store_up) = "ok"
          THEN Stored(doc, clock)
          ELSE UNCHANGED <<store, first_write, last_write>>
  /\ UNCHANGED <<pc, browser, mongo_ok, runVars, histVars, clock>>

\* Time passes between two calls.
Tick ==
  /\ pc = "save_doc"
  /\ OthersIdle
  /\ clock < MaxClock
  /\ clock' = clock + 1
  /\ UNCHANGED <<pc, browser, mongo_ok, runVars, histVars, store, first_write, last_write>>

NextStore ==
  \/ SaveDocCall
  \/ Tick

SpecStore == InitStore /\ [][NextStore]_vars

\* ------------------------------------- tab.evaluate and the Python values

\* What one await tab.evaluate(...) can deliver: an exception, or a value that
\* comes plain, wrapped as {"value": v} or {"result": {"value": v}}, or as a
\* dict that carries no value at all (wrap "other", e.g. {"type": "undefined"}).
\* v is an int, a bool (val 0/1) or None.
PlainValues ==
  {[raises |-> FALSE, wrap |-> "plain", kind |-> k[1], val |-> k[2]] :
     k \in {<<"int", 0>>, <<"int", 2>>, <<"bool", 0>>, <<"bool", 1>>, <<"none", 0>>}}

EvalOutcomes ==
  PlainValues
  \cup {[x EXCEPT !.wrap = "value"] : x \in PlainValues}
  \cup {[x EXCEPT !.wrap = "result"] : x \in {y \in PlainValues : y.val # 0}}
  \cup {[raises |-> FALSE, wrap |-> "other", kind |-> "none", val |-> 0],
        [raises |-> TRUE, wrap |-> "plain", kind |-> "none", val |-> 0]}

\* unwrap_js_value
unwrap_js_value(x) ==
  IF x.wrap \in {"value", "result"} THEN [x EXCEPT !.wrap = "plain"] ELSE x

\* bool(x) of Python: a non-empty dict is true, None is false.
PyBool(x) == IF x.wrap # "plain" THEN TRUE ELSE x.val # 0

\* int(x) of Python raises TypeError for a dict and for None.
PyIntRaises(x) == x.wrap # "plain" \/ x.kind = "none"

\* The page delivered a count greater than zero, plain or in one of the
\* envelopes unwrap_js_value opens.
PositiveCount(x) ==
  /\ ~x.raises
  /\ x.wrap \in {"plain", "value", "result"}
  /\ x.kind = "int"
  /\ x.val > 0

\* The page delivered a truthy value, whatever its envelope.
Truthy(x) == ~x.raises /\ PyBool(unwrap_js_value(x))

\* The body of the try in wait_for_any_anchor's loop:
\*   n = await tab.evaluate(...length); if int(n) > 0: return True
\*   except Exception: pass
AnchorPollUnguarded(x) ==
  IF x.raises \/ PyIntRaises(x) THEN "raise"
  ELSE IF x.val > 0 THEN "ready" ELSE "not_ready"

AnchorPollResult(x) ==
  IF x.raises \/ PyIntRaises(x) THEN "not_ready"
  ELSE IF x.val > 0 THEN "ready" ELSE "not_ready"

\* The body of the try in wait_for_detail_ready's loop:
\*   ok = await tab.evaluate(...); ok = unwrap_js_value(ok)
\*   if bool(ok): return True
\*   except Exception: pass
DetailPollResult(x) ==
  IF x.raises THEN "not_ready"
  ELSE IF PyBool(unwrap_js_value(x)) THEN "ready" ELSE "not_ready"

PollResult(fn, x) == IF fn = "anchor" THEN AnchorPollResult(x) ELSE DetailPollResult(x)

Timeout(fn) == IF fn = "anchor" THEN AnchorTimeout ELSE DetailTimeout

PollInterval(fn) == IF fn = "anchor" THEN AnchorPoll ELSE DetailPoll

\* `while time.time() < end`
BeforeDeadline(now, end) == now < end

EvalTicks == 0..MaxEvalTicks

\* ------------------------------ wait_for_any_anchor, wait_for_detail_ready

InitWait ==
  /\ pc = "wait"
  /\ browser = "started"
  /\ mongo_ok = TRUE
  /\ run_no = 0
  /\ seen = {}
  /\ page = 0
  /\ urls = <<>>
  /\ listing_tab = "none"
  /\ detail_tab = "none"
  /\ exc = FALSE
  /\ store = [u \in URLS |-> NoDoc]
  /\ clock = 1
  /\ requested = <<>>
  /\ listed = {}
  /\ processed = [u \in URLS |-> 0]
  /\ no_links = "none"
  /\ item = NoItem
  /\ first_write = [u \in URLS |-> 0]
  /\ last_write = [u \in URLS |-> 0]
  /\ WaitIdle
  /\ DetailIdle
  /\ FnIdle

\* The call up to the loop head. wait_for_any_anchor: end, the 1 s settle
\* (tab.sleep, or asyncio.sleep when it raises), the scrollTo(0, 800) whose
\* exception is swallowed. wait_for_detail_ready: end, the scrollTo(0, 200)
\* whose exception is swallowed. d is the time the scroll was awaited.
WaitCall ==
  /\ w_pc = "idle"
  /\ \E fn \in {"anchor", "detail"}, d \in EvalTicks :
       /\ w_fn' = fn
       /\ w_end' = w_now + Timeout(fn)
       /\ w_now' = w_now + (IF fn = "anchor" THEN AnchorSettle ELSE 0) + d
       /\ w_hist' = [NoWaitHist EXCEPT !.awaited = d]
  /\ w_pc' = "loop"
  /\ w_ret' = "none"
  /\ UNCHANGED <<schedVars, detailVars, fnVars>>

\* One pass of the while loop: the deadline test, then the evaluation, the
\* return or the sleep, and for wait_for_detail_ready the scrollTo(0, 600)
\* after the sleep. x is what the evaluation delivers, d1 and d2 the times the
\* evaluation and the scroll were awaited.
WaitPoll ==
  /\ w_pc = "loop"
  /\ IF ~BeforeDeadline(w_now, w_end)
     THEN \* return False
          /\ w_pc' = "done"
          /\ w_ret' = "false"
          /\ w_hist' = [w_hist EXCEPT !.last = "none"]
          /\ UNCHANGED <<w_now>>
     ELSE \E x \in EvalOutcomes, d1 \in EvalTicks, d2 \in EvalTicks :
            LET r == PollResult(w_fn, x)
                seen_now == [w_hist EXCEPT
                               !.polls = IF @ < 2 THEN @ + 1 ELSE @,
                               !.truthy = @ \/ Truthy(x),
                               !.counted = @ \/ PositiveCount(x),
                               !.failed = @ \/ x.raises,
                               !.last = IF x.raises THEN "raise"
                                        ELSE IF x.wrap = "other" \/ x.kind = "none"
                                             THEN "wrong_type"
                                        ELSE IF Truthy(x) THEN "truthy" ELSE "falsy"]
            IN CASE r = "ready" ->
                      /\ w_pc' = "done"
                      /\ w_ret' = "true"
                      /\ w_now' = w_now + d1
                      /\ w_hist' = [seen_now EXCEPT !.awaited = d1]
                 [] r = "raise" ->
                      /\ w_pc' = "done"
                      /\ w_ret' = "raised"
                      /\ w_now' = w_now + d1
                      /\ w_hist' = [seen_now EXCEPT !.awaited = d1]
                 [] OTHER ->
                      LET scroll == IF w_fn = "detail" THEN d2 ELSE 0
                      IN /\ w_pc' = "loop"
                         /\ w_ret' = "none"
                         /\ w_now' = w_now + d1 + PollInterval(w_fn) + scroll
                         /\ w_hist' = [seen_now EXCEPT !.awaited = d1 + scroll]
  /\ UNCHANGED <<w_fn, w_end>>
  /\ UNCHANGED <<schedVars, detailVars, fnVars>>

NextWait ==
  \/ WaitCall
  \/ WaitPoll

SpecWait == InitWait /\ [][NextWait]_vars

\* ------------------------------------------ scrape_detail_in_detail_tab

\* _count() of expand_features_if_needed: int(unwrap_js_value(n) or 0), and 0
\* when the evaluation or the conversion raises.
CountOf(x) ==
  IF x.raises THEN 0
  ELSE LET n == unwrap_js_value(x)
       IN IF ~PyBool(n) THEN 0
          ELSE IF PyIntRaises(n) THEN 0
          ELSE n.val

\* safe_click: bool(unwrap_js_value(ok)), and False when the evaluation raises.
safe_click(x) == IF x.raises THEN FALSE ELSE PyBool(unwrap_js_value(x))

\* The fallback scan of expand_features_if_needed: the evaluation is awaited
\* outside any try, then clicked = bool(unwrap_js_value(clicked)).
FallbackScan(x) ==
  IF x.raises THEN "raise"
  ELSE IF PyBool(unwrap_js_value(x)) THEN "clicked" ELSE "absent"

\* The control-gone check of the polling loop: guarded by try/except-pass.
ControlGone(x) == IF x.raises THEN FALSE ELSE PyBool(unwrap_js_value(x))

\* What evaluating !document.querySelector("button[aria-label='...']") can
\* deliver on a page where the control with that aria-label is, or is not,
\* present: an exception, or the boolean, plain or in an envelope.
GoneOutcomes(named_present) ==
  {x \in EvalOutcomes :
     x.raises \/ (x.kind = "bool" /\ x.val = IF named_present THEN 0 ELSE 1)}

\* What the evaluation of extract_detail_basic can deliver: an exception,
\* None, the JSON text (plain or wrapped), a text that is no JSON, or a dict
\* without a value.
RawOutcomes == {"raise", "none", "json", "wrapped_json", "garbage", "other"}

\* extract_detail_basic after the evaluation: unwrap, `if not raw: return {}`,
\* json.loads with its exception turned into {}. The evaluation itself is
\* awaited outside the try.
extract_detail_basic(raw) ==
  CASE raw = "raise" -> "raised"
    [] raw \in {"json", "wrapped_json"} -> "full"
    [] OTHER -> "empty"

InitDetail ==
  /\ pc = "detail"
  /\ browser = "started"
  /\ mongo_ok = TRUE
  /\ run_no = 0
  /\ seen = {}
  /\ page = 0
  /\ urls = <<>>
  /\ listing_tab = "none"
  /\ detail_tab = "open"
  /\ exc = FALSE
  /\ store = [u \in URLS |-> NoDoc]
  /\ clock = 1
  /\ requested = <<>>
  /\ listed = {}
  /\ processed = [u \in URLS |-> 0]
  /\ no_links = "none"
  /\ item = NoItem
  /\ first_write = [u \in URLS |-> 0]
  /\ last_write = [u \in URLS |-> 0]
  /\ WaitIdle
  /\ DetailIdle
  /\ FnIdle

\* navigate_in_tab, wait_for_detail_ready (its result is dropped), the 1.2 s
\* sleep and the five scrollTo evaluations whose exceptions are swallowed.
DetailOpen ==
  /\ d_pc = "idle"
  /\ \E get_ok \in BOOLEAN, eval_ok \in BOOLEAN, ready \in BOOLEAN :
       IF NavigateRaises(get_ok, eval_ok)
       THEN /\ d_pc' = "done"
            /\ d_ret' = "raised"
            /\ d_hist' = [d_hist EXCEPT !.raised_in = "navigate"]
       ELSE /\ d_pc' = "expand"
            /\ d_ret' = "none"
            /\ d_hist' = [d_hist EXCEPT !.ready = IF ready THEN "true" ELSE "false"]
  /\ UNCHANGED <<e_before, e_now, e_end>>
  /\ UNCHANGED <<schedVars, waitVars, fnVars>>

\* expand_features_if_needed up to the polling loop: before = _count(), the
\* click by aria-label, the fallback scan when that found nothing, and the
\* return when nothing was clicked.
ExpandClick ==
  /\ d_pc = "expand"
  /\ \E xb \in EvalOutcomes, xc \in EvalOutcomes, xf \in EvalOutcomes :
       LET named == safe_click(xc)
           fb == IF named THEN "clicked" ELSE FallbackScan(xf)
       IN /\ e_before' = CountOf(xb)
          /\ CASE fb = "raise" ->
                    /\ d_pc' = "done"
                    /\ d_ret' = "raised"
                    /\ d_hist' = [d_hist EXCEPT !.expand = "raised",
                                                !.raised_in = "expand"]
                    /\ UNCHANGED <<e_now, e_end>>
               [] fb = "absent" ->
                    /\ d_pc' = "extract"
                    /\ d_ret' = "none"
                    /\ d_hist' = [d_hist EXCEPT !.expand = "noop"]
                    /\ UNCHANGED <<e_now, e_end>>
               [] OTHER ->
                    /\ d_pc' = "poll"
                    /\ d_ret' = "none"
                    /\ d_hist' = [d_hist EXCEPT
                                    !.control = IF named THEN "named" ELSE "fallback"]
                    /\ e_now' = 0
                    /\ e_end' = ExpandTimeout
  /\ UNCHANGED <<schedVars, waitVars, fnVars>>

\* One pass of the polling loop of expand_features_if_needed: the deadline
\* test, the sleep, after = _count(), the control-gone check. xa and xg are
\* what the two evaluations deliver, d1 and d2 the times they were awaited;
\* named_present and fallback_present say which controls the page shows.
ExpandPollPass ==
  /\ d_pc = "poll"
  /\ IF ~BeforeDeadline(e_now, e_end)
     THEN /\ d_pc' = "extract"
          /\ d_hist' = [d_hist EXCEPT !.expand = "timeout"]
          /\ UNCHANGED e_now
     ELSE \E named_present \in BOOLEAN, fallback_present \in BOOLEAN,
             xa \in EvalOutcomes, d1 \in EvalTicks, d2 \in EvalTicks :
          \E xg \in GoneOutcomes(named_present) :
            LET polled == [d_hist EXCEPT !.polls = IF @ < 2 THEN @ + 1 ELSE @]
                on_page == IF d_hist.control = "named" THEN named_present
                           ELSE fallback_present
            IN IF CountOf(xa) > e_before
               THEN /\ d_pc' = "extract"
                    /\ d_hist' = [polled EXCEPT !.expand = "grew"]
                    /\ e_now' = e_now + ExpandPoll + d1
               ELSE IF ControlGone(xg)
               THEN /\ d_pc' = "extract"
                    /\ d_hist' = [polled EXCEPT
                                    !.expand = "gone",
                                    !.activated = IF on_page THEN "present"
                                                  ELSE "absent"]
                    /\ e_now' = e_now + ExpandPoll + d1 + d2
               ELSE /\ d_pc' = "poll"
                    /\ d_hist' = polled
                    /\ e_now' = e_now + ExpandPoll + d1 + d2
  /\ UNCHANGED <<d_ret, e_before, e_end>>
  /\ UNCHANGED <<schedVars, waitVars, fnVars>>

\* return await extract_detail_basic(detail_tab)
Extract ==
  /\ d_pc = "extract"
  /\ \E raw \in RawOutcomes :
       /\ d_ret' = extract_detail_basic(raw)
       /\ d_hist' = [d_hist EXCEPT
                       !.raw = raw,
                       !.raised_in = IF extract_detail_basic(raw) = "raised"
                                     THEN "extract" ELSE @]
  /\ d_pc' = "done"
  /\ UNCHANGED <<e_before, e_now, e_end>>
  /\ UNCHANGED <<schedVars, waitVars, fnVars>>

NextDetail ==
  \/ DetailOpen
  \/ ExpandClick
  \/ ExpandPollPass
  \/ Extract

SpecDetail == InitDetail /\ [][NextDetail]_vars

\* ------------------------------------------------- pure functions (SpecFn)

\* Strings are sequences of tokens. u[i..] begins with pat.
MatchesAt(u, pat, i) ==
  /\ i + Len(pat) - 1 <= Len(u)
  /\ \A k \in 1..Len(pat) : u[i + k - 1] = pat[k]

\* str.find: the first position where pat occurs in u, 0 when it does not.
Find(u, pat) ==
  LET hits == {i \in 1..Len(u) : MatchesAt(u, pat, i)}
  IN IF hits = {} THEN 0 ELSE CHOOSE i \in hits : \A j \in hits : i <= j

\* `pat in u`
Contains(u, pat) == Find(u, pat) # 0

\* u.replace(pat, new, 1)
ReplaceFirst(u, pat, new) ==
  LET i == Find(u, pat)
  IN IF i = 0 THEN u
     ELSE SubSeq(u, 1, i - 1) \o new \o SubSeq(u, i + Len(pat), Len(u))

\* A URL is "https" followed by tokens: the host part "://ksa.yallamotor.com",
\* a slash, the path segment "ar", or any other path segment "x".
UrlTokens == {"://ksa.yallamotor.com", "/", "ar", "x"}

OriginSlash == <<"://ksa.yallamotor.com", "/">>

ArMarker == <<"://ksa.yallamotor.com", "/", "ar", "/">>

\* to_arabic_url
to_arabic_url(url) ==
  IF url = <<>> THEN url
  ELSE IF Contains(url, ArMarker) THEN url
  ELSE ReplaceFirst(url, OriginSlash, ArMarker)

\* The arguments tried: the empty string and every "https"-URL of up to
\* MaxUrlLen further tokens.
UrlInputs ==
  {<<>>} \cup {<<"https">> \o t : t \in SeqsUpTo(UrlTokens, MaxUrlLen)}

\* ---- priceText and priceNumber of extract_detail_basic's in-page program

\* The characters sarRe = /SAR\s*[\d,.]+/ admits after "SAR" and whitespace.
PriceChars == {"0", "1", "9", ",", "."}

IsDigit(c) == c \in {"0", "1", "9"}

DigitValue(c) == CASE c = "0" -> 0 [] c = "1" -> 1 [] c = "9" -> 9

\* priceText.replace(/[^\d]/g, "")
DigitsOnly(text) == SelectSeq(text, IsDigit)

\* Number(s) of a string of digits; Number("") is 0. The values stay far
\* below 2^53, where Number is exact.
RECURSIVE Number(_)
Number(digits) ==
  IF digits = <<>> THEN 0
  ELSE 10 * Number(SubSeq(digits, 1, Len(digits) - 1))
       + DigitValue(digits[Len(digits)])

Null == [null |-> TRUE, num |-> 0]

\* `n || null`: 0 is falsy.
OrNull(n) == IF n = 0 THEN Null ELSE [null |-> FALSE, num |-> n]

\* priceNumber = priceText ? (Number(priceText.replace(/[^\d]/g, "")) || null) : null
priceNumber(priceText) ==
  IF priceText.null THEN Null
  ELSE OrNull(Number(DigitsOnly(priceText.text)))

\* priceText: null when no node matches sarRe, else the matched substring:
\* "SAR", optional whitespace, one or more of digits, commas and dots.
PriceTexts ==
  {[null |-> TRUE, text |-> <<>>]}
  \cup {[null |-> FALSE, text |-> <<"SAR">> \o ws \o tail] :
          ws \in {<<>>, <<" ">>},
          tail \in SeqsUpTo(PriceChars, MaxPriceLen) \ {<<>>}}

\* ---- images and features of extract_detail_basic's in-page program

\* An image source is known by the substrings the program tests with
\* includes(): "/resized/car_model/", "webp_listing_main", "webp_slide_show",
\* "webp_thumb".
ImgSources ==
  {[name |-> "a", car_model |-> TRUE, listing_main |-> TRUE, slide_show |-> FALSE,
    thumb |-> FALSE],
   [name |-> "b", car_model |-> TRUE, listing_main |-> FALSE, slide_show |-> TRUE,
    thumb |-> FALSE],
   [name |-> "c", car_model |-> TRUE, listing_main |-> FALSE, slide_show |-> FALSE,
    thumb |-> FALSE],
   [name |-> "d", car_model |-> FALSE, listing_main |-> TRUE, slide_show |-> FALSE,
    thumb |-> FALSE],
   [name |-> "e", car_model |-> FALSE, listing_main |-> FALSE, slide_show |-> FALSE,
    thumb |-> FALSE],
   [name |-> "f", car_model |-> TRUE, listing_main |-> FALSE, slide_show |-> FALSE,
    thumb |-> TRUE],
   [name |-> "g", car_model |-> FALSE, listing_main |-> FALSE, slide_show |-> FALSE,
    thumb |-> TRUE]}

IsPreferred(s) == s.car_model /\ (s.listing_main \/ s.slide_show)

IsFallback(s) == s.car_model

\* const preferred = allImgs.filter(...)
preferred(allImgs) == SelectSeq(allImgs, IsPreferred)

\* const fallback = allImgs.filter(...)
fallback(allImgs) == SelectSeq(allImgs, IsFallback)

\* const pick = preferred.length ? preferred : fallback
pickFallbackAlways(pref, fb) == fb

pick(pref, fb) == IF Len(pref) > 0 THEN pref ELSE fb

\* for (const s of list) if (!seen.has(s)) { seen.add(s); out.push(s); }
RECURSIVE PushUnseen(_, _, _)
PushAll(list, seenSet, out) == out \o list

PushUnseen(list, seenSet, out) ==
  IF list = <<>> THEN out
  ELSE IF Head(list) \in seenSet THEN PushUnseen(Tail(list), seenSet, out)
  ELSE PushUnseen(Tail(list), seenSet \cup {Head(list)}, Append(out, Head(list)))

images(allImgs) == PushUnseen(pick(preferred(allImgs), fallback(allImgs)), {}, <<>>)

IsThumb(s) == s.thumb

\* thumbsRaw = allImgs.filter(s => s.includes("webp_thumb")), without repeats.
imageThumbs(allImgs) == PushUnseen(SelectSeq(allImgs, IsThumb), {}, <<>>)

\* s.replace(/\s+/g, " "): every run of spaces becomes one space.
RECURSIVE CollapseSpaces(_)
CollapseSpaces(s) ==
  IF Len(s) <= 1 THEN s
  ELSE IF s[1] = " " /\ s[2] = " " THEN CollapseSpaces(Tail(s))
  ELSE <<s[1]>> \o CollapseSpaces(Tail(s))

\* .trim() of a string whose runs of spaces are single.
Trim(s) ==
  LET a == IF s # <<>> /\ Head(s) = " " THEN Tail(s) ELSE s
  IN IF a # <<>> /\ a[Len(a)] = " " THEN SubSeq(a, 1, Len(a) - 1) ELSE a

\* cleanText
cleanText(s) == Trim(CollapseSpaces(s))

\* The raw texts of a span's title attribute and of its innerText.
RawTexts ==
  {<<>>, <<" ">>, <<"a">>, <<" ", "a">>, <<"a", " ">>, <<"b">>,
   <<"a", " ", "b">>, <<"a", " ", " ", "b">>}

InnerTexts == {<<>>, <<"b">>, <<" ", "a">>}

FeatureSpans == [title : RawTexts, innerText : InnerTexts]

\* cleanText(s.getAttribute("title") || s.innerText || "")
FeatureText(span) ==
  cleanText(IF span.title # <<>> THEN span.title ELSE span.innerText)

IsText(t) == t # <<>>

\* The loop over featureSpans: `if (t && !seenF.has(t))`.
features(spans) ==
  PushUnseen(SelectSeq([i \in 1..Len(spans) |-> FeatureText(spans[i])], IsText),
             {}, <<>>)

\* ---- one call of one of the functions, on any argument

FnInputs ==
  {[fn |-> "to_arabic_url", url |-> u] : u \in UrlInputs}
  \cup {[fn |-> "priceNumber", priceText |-> t] : t \in PriceTexts}
  \cup {[fn |-> "images", allImgs |-> l] : l \in SeqsUpTo(ImgSources, MaxImgs)}
  \cup {[fn |-> "features", spans |-> l] : l \in SeqsUpTo(FeatureSpans, MaxSpans)}

InitFn ==
  /\ pc = "fn"
  /\ browser = "started"
  /\ mongo_ok = TRUE
  /\ run_no = 0
  /\ seen = {}
  /\ page = 0
  /\ urls = <<>>
  /\ listing_tab = "none"
  /\ detail_tab = "none"
  /\ exc = FALSE
  /\ store = [u \in URLS |-> NoDoc]
  /\ clock = 1
  /\ requested = <<>>
  /\ listed = {}
  /\ processed = [u \in URLS |-> 0]
  /\ no_links = "none"
  /\ item = NoItem
  /\ first_write = [u \in URLS |-> 0]
  /\ last_write = [u \in URLS |-> 0]
  /\ WaitIdle
  /\ DetailIdle
  /\ x_pc = "idle"
  /\ x_in \in FnInputs
  /\ x_out = NoOutput

Returned(val) ==
  /\ x_pc' = "done"
  /\ x_out' = [fn |-> x_in.fn, val |-> val]
  /\ UNCHANGED x_in
  /\ UNCHANGED <<schedVars, waitVars, detailVars>>

CallToArabicUrl ==
  /\ x_pc = "idle"
  /\ x_in.fn = "to_arabic_url"
  /\ Returned(to_arabic_url(x_in.url))

CallPriceNumber ==
  /\ x_pc = "idle"
  /\ x_in.fn = "priceNumber"
  /\ Returned(priceNumber(x_in.priceText))

CallImages ==
  /\ x_pc = "idle"
  /\ x_in.fn = "images"
  /\ x_pc' = "done"
  /\ x_out' = [fn |-> "images", val |-> images(x_in.allImgs),
               imageThumbs |-> imageThumbs(x_in.allImgs)]
  /\ UNCHANGED x_in
  /\ UNCHANGED <<schedVars, waitVars, detailVars>>

CallFeatures ==
  /\ x_pc = "idle"
  /\ x_in.fn = "features"
  /\ Returned(features(x_in.spans))

NextFn ==
  \/ CallToArabicUrl
  \/ CallPriceNumber
  \/ CallImages
  \/ CallFeatures

SpecFn == InitFn /\ [][NextFn]_vars

\* ================================================================ claims

HasDoc(u) == DOMAIN store[u] # {}

IsFailedDoc(u) ==
  /\ HasDoc(u)
  /\ store[u]["status"] = "FAILED"
  /\ "error" \in DOMAIN store[u]
  /\ store[u]["error"] # ""

\* C1: when a listing page yields zero links, whether the link list came back
\* empty or no anchor appeared before the readiness timeout, the run ends
\* early without an error: no higher page is requested, every link listed by
\* the earlier pages has been processed exactly once, and the scheduler goes
\* on to its sleep.
C1_ZeroLinksEndRunQuietly ==
  no_links # "none" =>
    /\ ~exc
    /\ pc \in {"finally", "sleep", "run_start"}
    /\ Len(requested) = page
    /\ \A i \in 1..Len(requested) : requested[i] = i
    /\ \A u \in listed : processed[u] = 1

\* C2: once the browser has started, no failure met while a run is working
\* through its listing pages and items leaves scrape_forever and ends the
\* process: every run reaches the inter-run sleep.
C2_NoFailureEndsProcess == ~(pc = "exited" /\ exc)

\* C3 as claimed (with the store configured): whenever processing an item
\* raised, a FAILED document with a non-empty error is stored under that URL
\* and the run goes on.
C3_FailureAlwaysStored ==
  (mongo_ok /\ item.outcome = "failed") =>
    /\ IsFailedDoc(item.url)
    /\ last_write[item.url] = clock
    /\ ~exc /\ pc # "exited"

\* C3 as amended: whenever processing an item raised, the exception is caught
\* at that item and the write of a FAILED document is attempted; when that
\* write does not raise, a document with status FAILED and a non-empty error
\* is stored under that URL's identity at that instant; in either case the run
\* goes on with the next link or page.
C3_FailureIsolated ==
  item.outcome = "failed" =>
    /\ item.fail_write \in {"stored", "swallowed"}
    /\ item.fail_write = "stored" =>
         /\ IsFailedDoc(item.url)
         /\ store[item.url]["url"] = item.url
         /\ last_write[item.url] = clock
    /\ ~exc
    /\ \/ pc = "items" /\ urls # <<>>
       \/ pc = "list" /\ urls = <<>> /\ page <= MAX_PAGES
       \/ pc = "finally" /\ urls = <<>> /\ page = MAX_PAGES

C3_Witness ==
  /\ item.outcome = "failed"
  /\ item.raised = "extract_raise"
  /\ item.fail_write = "stored"
  /\ pc = "items"
  /\ urls # <<>>

\* C4: within one run a detail URL is handed to the detail pipeline at most
\* once, however often it is listed on one page or across pages, also when
\* its first processing failed.
C4_AtMostOncePerRun == \A u \in URLS : processed[u] <= 1

C4_Witness ==
  /\ item.outcome = "skipped"
  /\ page = 2
  /\ processed[item.url] = 1
  /\ IsFailedDoc(item.url)
  /\ last_write[item.url] = clock

\* C5: for any sequence of save_doc calls on one identity, the stored
\* createdAt is that of the first write, and updatedAt and scrapedAt are
\* those of the most recent write.
C5_CreatedAtImmutable ==
  \A u \in URLS :
    /\ HasDoc(u) <=> first_write[u] # 0
    /\ HasDoc(u) =>
         /\ store[u]["createdAt"] = first_write[u]
         /\ store[u]["updatedAt"] = last_write[u]
         /\ store[u]["scrapedAt"] = last_write[u]

C5_Witness ==
  \E u \in URLS :
    /\ HasDoc(u)
    /\ store[u]["status"] = "OK"
    /\ "error" \in DOMAIN store[u]
    /\ store[u]["createdAt"] = 1
    /\ store[u]["updatedAt"] = MaxClock

\* C6: every browsing context a run acquired has had its close attempted by
\* the time the run is left, on every exit path.
C6_TabsClosedWhenRunLeft ==
  pc \in {"sleep", "exited"} => (listing_tab # "open" /\ detail_tab # "open")

\* C7: with the store configuration missing, the process fails at startup,
\* before any listing page is requested or any detail item is processed.
C7_MissingConfigFailsAtStartup ==
  ~mongo_ok => (requested = <<>> /\ \A u \in URLS : processed[u] = 0)


\* C8 as claimed: the two waits never raise, a failed evaluation counts as
\* not ready and polling goes on, true is returned only if a poll begun before
\* the deadline evaluated truthy, and false is returned no later than the
\* timeout plus one poll interval after the call.
C8_WaitBoundedByTimeout ==
  /\ w_ret # "raised"
  /\ w_hist.last = "raise" => (w_pc = "loop" /\ w_ret = "none")
  /\ w_ret = "true" => w_hist.truthy
  /\ w_ret = "false" => w_now <= Timeout(w_fn) + PollInterval(w_fn)

\* C8 as amended: the two waits never raise and return a boolean, a failed
\* evaluation counts as not ready and polling goes on, true is returned only
\* if a poll begun before the deadline evaluated truthy, and false is returned
\* no later than the timeout plus one poll interval plus the time for which
\* the evaluations of the last pass were awaited.
C8_WaitTotal ==
  /\ w_ret # "raised"
  /\ w_pc = "done" <=> w_ret \in {"true", "false"}
  /\ w_hist.last = "raise" => (w_pc = "loop" /\ w_ret = "none")
  /\ w_ret = "true" => w_hist.truthy
  /\ w_ret = "false" => /\ w_now >= w_end
                        /\ w_now < Timeout(w_fn) + PollInterval(w_fn) + w_hist.awaited

C8_Witness ==
  /\ w_fn = "detail"
  /\ w_ret = "false"
  /\ w_hist.polls >= 2
  /\ w_hist.failed
  /\ ~w_hist.truthy
  /\ w_now > Timeout(w_fn) + PollInterval(w_fn)


\* C9: expand_features_if_needed always returns normally: no outcome of its
\* in-page evaluations, an exception included, makes it raise into
\* scrape_detail_in_detail_tab.
C9_ExpandNeverRaises == d_hist.expand # "raised"

\* C10: when neither the named control nor a fallback button is found,
\* expand_features_if_needed returns at once, without a pass of the polling
\* loop and without error, and the extract_detail_basic call that follows
\* runs and yields a record.
C10_NoControlStillYieldsRecord ==
  d_hist.expand = "noop" =>
    /\ d_hist.polls = 0
    /\ d_hist.control = "none"
    /\ \/ d_pc = "extract" /\ d_ret = "none"
       \/ d_pc = "done" /\ d_ret \in {"empty", "full"}


\* C11: in every reachable state of the store a document carries an error
\* field only when its status is FAILED; a document whose latest write was a
\* successful extraction has no error field, whatever was written before.
C11_ErrorOnlyWhenFailed ==
  \A u \in URLS :
    (HasDoc(u) /\ "error" \in DOMAIN store[u]) => store[u]["status"] = "FAILED"


\* The fields a FAILED document provides, and the content fields of a
\* successful record.
FailFields ==
  {"status", "error", "url", "arUrl", "source", "type", "updatedAt", "scrapedAt"}

ContentFields ==
  {"title", "breadcrumbs", "priceText", "priceNumber", "images", "highlights",
   "measurements", "descriptionText", "descriptionHtml", "features"}

\* C12: a FAILED document written to an identity that holds a successful
\* record changes only the fields the failure document provides and leaves
\* every stored content field and createdAt as they were.
C12_FailedWriteKeepsContent ==
  [][\A u \in URLS :
       (HasDoc(u) /\ store[u]["status"] = "OK" /\ store'[u]["status"] = "FAILED")
       => /\ \A f \in DOMAIN store[u] \ FailFields :
               f \in DOMAIN store'[u] /\ store'[u][f] = store[u][f]
          /\ DOMAIN store'[u] \subseteq DOMAIN store[u] \cup FailFields
          /\ ContentFields \cup {"createdAt"} \subseteq DOMAIN store'[u]
          /\ FailFields \subseteq DOMAIN store'[u]]_vars

C12_Witness ==
  \E u \in URLS :
    /\ HasDoc(u)
    /\ store[u]["status"] = "FAILED"
    /\ ContentFields \subseteq DOMAIN store[u]
    /\ store[u]["title"] = "T"
    /\ store[u]["features"] = <<"f">>
    /\ store[u]["createdAt"] < store[u]["updatedAt"]


\* C13: extract_detail_basic is invoked only after wait_for_detail_ready
\* returned true for that navigation and after expand_features_if_needed has
\* run and returned; extraction never starts on a page whose readiness wait
\* timed out.
C13_ExtractOnlyAfterReady ==
  (d_pc = "extract" \/ d_hist.raw # "none_yet") =>
    /\ d_hist.ready = "true"
    /\ d_hist.expand \in {"noop", "grew", "gone", "timeout"}


\* C14: in every run the listing pages requested are exactly 1, 2, ..., k in
\* ascending consecutive order with k at most MAX_PAGES; no page is requested
\* twice in a run and every new run starts again at page 1.
C14_PagesAscendingFromOne ==
  /\ Len(requested) <= MAX_PAGES
  /\ \A i \in 1..Len(requested) : requested[i] = i
  /\ pc \in {"list", "items"} => page \in 1..MAX_PAGES
  /\ pc = "list" => Len(requested) = page - 1
  /\ pc = "items" => Len(requested) = page

C14_Witness ==
  /\ run_no = 2
  /\ pc = "items"
  /\ Len(requested) = MAX_PAGES
  /\ requested[1] = 1

\* C15: the seen set is scoped to one run: a run begins with the run number
\* one more than the previous run's and with an empty seen set, which holds
\* only URLs handed to the detail pipeline in this run, so a URL processed in
\* run n is processed again in run n+1 when it is still listed.
C15_SeenScopedToRun ==
  [][/\ run_no' # run_no => (run_no' = run_no + 1 /\ seen' = {})
     /\ seen' = {u \in URLS : processed'[u] >= 1}
     /\ (pc = "items" /\ Head(urls) \notin seen)
          => processed'[Head(urls)] = processed[Head(urls)] + 1]_vars

C15_Witness ==
  \E u \in URLS :
    /\ run_no = 2
    /\ u \in seen
    /\ processed[u] = 1
    /\ first_write[u] = 1
    /\ last_write[u] = 2


\* C16: extract_detail_basic returns the empty record, and signals no error,
\* whenever its evaluation yields nothing parseable: an empty or null result,
\* a text that is no JSON, a value that cannot be decoded, and an evaluation
\* that itself fails.
C16_ExtractReturnsEmptyOnFailure ==
  d_hist.raw \in {"raise", "none", "garbage", "other"} =>
    /\ d_pc = "done"
    /\ d_ret = "empty"
    /\ d_hist.raised_in = "none"


\* C17: the derived numeric price is the integer formed by the digits of the
\* matched price text whenever that text has at least one digit, and it is
\* null exactly when the matched text has no digit.
C17_PriceNumberIsDigits ==
  (x_pc = "done" /\ x_in.fn = "priceNumber" /\ ~x_in.priceText.null) =>
    LET digits == DigitsOnly(x_in.priceText.text)
    IN /\ digits # <<>> => (~x_out.val.null /\ x_out.val.num = Number(digits))
       /\ x_out.val.null <=> digits = <<>>

\* The position at which x is first seen in list.
FirstPos(x, list) == CHOOSE i \in 1..Len(list) : list[i] = x /\ \A j \in 1..(i - 1) : list[j] # x

\* C18: the images list is the curated subset (vehicle-image bucket with a
\* main or gallery marker) whenever that subset is non-empty, and the whole
\* vehicle-image bucket otherwise; with a non-empty curated subset no
\* fallback-only source is in the result.
C18_ImagesCuratedElseBucket ==
  (x_pc = "done" /\ x_in.fn = "images") =>
    LET curated == {s \in Range(x_in.allImgs) : IsPreferred(s)}
        bucket == {s \in Range(x_in.allImgs) : IsFallback(s)}
    IN /\ Range(x_out.val) = IF curated # {} THEN curated ELSE bucket
       /\ curated # {} => \A s \in Range(x_out.val) : IsPreferred(s)

C18_Witness ==
  /\ x_pc = "done"
  /\ x_in.fn = "images"
  /\ \E s \in Range(x_in.allImgs) : IsPreferred(s)
  /\ \E s \in Range(x_in.allImgs) : IsFallback(s) /\ ~IsPreferred(s)
  /\ \E s \in Range(x_in.allImgs) : ~IsFallback(s)
  /\ Len(x_out.val) = 1

\* C19: for every input, repeated sources and repeated feature texts
\* included, the images list and the features list hold no entry twice and
\* keep their entries in the order in which they are first seen.
C19_NoDuplicatesFirstSeenOrder ==
  (x_pc = "done" /\ x_in.fn \in {"images", "features"}) =>
    LET out == x_out.val
        dom == IF x_in.fn = "images" THEN x_in.allImgs
               ELSE [i \in 1..Len(x_in.spans) |-> FeatureText(x_in.spans[i])]
    IN /\ \A i, j \in 1..Len(out) : out[i] = out[j] => i = j
       /\ Range(out) \subseteq Range(dom)
       /\ \A i, j \in 1..Len(out) :
            i < j => FirstPos(out[i], dom) < FirstPos(out[j], dom)
       /\ x_in.fn = "features" => Range(out) = Range(dom) \ {<<>>}

C19_Witness ==
  /\ x_pc = "done"
  /\ x_in.fn = "features"
  /\ Len(x_in.spans) = 2
  /\ x_in.spans[1].title # x_in.spans[2].title
  /\ x_in.spans[1].title # <<>>
  /\ x_in.spans[2].title # <<>>
  /\ x_out.val = << <<"a", " ", "b">> >>

\* u is a URL of the site; its path begins with the locale segment.
OnOrigin(u) ==
  /\ Len(u) >= 2
  /\ u[1] = "https"
  /\ u[2] = "://ksa.yallamotor.com"
  /\ Len(u) = 2 \/ u[3] = "/"

Localized(u) ==
  /\ Len(u) >= 4
  /\ SubSeq(u, 1, 4) = <<"https", "://ksa.yallamotor.com", "/", "ar">>
  /\ Len(u) = 4 \/ u[5] = "/"

\* C20: to_arabic_url is idempotent, returns an already localized URL
\* unchanged, and for every other URL of the site returns the URL with the
\* locale segment inserted right after the origin, so that the result begins
\* with the origin followed by the locale segment.
C20_ToArabicUrlLocalizes ==
  (x_pc = "done" /\ x_in.fn = "to_arabic_url") =>
    LET u == x_in.url
        r == x_out.val
    IN /\ to_arabic_url(r) = r
       /\ Localized(u) => r = u
       /\ (OnOrigin(u) /\ ~Localized(u)) =>
            /\ r = SubSeq(u, 1, 2) \o <<"/", "ar">> \o SubSeq(u, 3, Len(u))
            /\ Localized(r)


\* C21: once expand_features_if_needed has activated a control, it returns
\* before the timeout only when the chip count has risen above the count taken
\* before the click or the control that was activated is no longer on the
\* page; without either signal it polls on until the timeout and then returns
\* normally.
C21_ExpandReturnsOnSignalOnly ==
  d_hist.control # "none" =>
    /\ d_hist.expand \in {"none", "grew", "gone", "timeout"}
    /\ d_hist.expand = "gone" => d_hist.activated = "absent"
    /\ d_hist.expand = "timeout" => e_now >= e_end
    /\ d_hist.expand # "none" => d_pc \in {"extract", "done"}


\* C22: a per-item failure leaves the run state and the run's resources as
\* they are: seen holds the failed URL and every URL seen before it, the loop
\* goes on with the remaining links of the page and the page counter exactly
\* as after a successful item, and the listing and detail tabs stay the ones
\* acquired at the start of the run, still open.
C22_FailureKeepsRunState ==
  [][(pc = "items" /\ item'.outcome = "failed") =>
       /\ seen' = seen \cup {item'.url}
       /\ item'.url = Head(urls)
       /\ urls' = Tail(urls)
       /\ page' = IF Tail(urls) = <<>> /\ page < MAX_PAGES THEN page + 1 ELSE page
       /\ exc' = FALSE
       /\ run_no' = run_no
       /\ listing_tab = "open" /\ listing_tab' = listing_tab
       /\ detail_tab = "open" /\ detail_tab' = detail_tab]_vars

C22_Witness ==
  /\ pc = "items"
  /\ item.outcome = "failed"
  /\ item.url \in seen
  /\ Cardinality(seen) = 2
  /\ urls # <<>>
  /\ listing_tab = "open"
  /\ detail_tab = "open"


\* C23: wait_for_any_anchor returns true whenever a poll begun before the
\* deadline reports a count of listing links greater than zero, in every
\* shape in which the count can arrive: a plain number, {"value": n} or
\* {"result": {"value": n}}.
C23_AnchorCountInAnyShape ==
  (w_fn = "anchor" /\ w_hist.counted) => (w_pc = "done" /\ w_ret = "true")


C25_ImagesAndThumbsDisjoint ==
  (x_pc = "done" /\ x_in.fn = "images") =>
    Range(x_out.val) \cap Range(x_out.imageThumbs) = {}

====
